---- MODULE Spec2Model ----
(***************************************************************************)
(* Model of src/bot.py: the NCN information bot.                           *)
(*                                                                         *)
(* The program is a set of handlers registered on a python-telegram-bot    *)
(* Application.  An incoming update is either a message (a command or a    *)
(* plain text) or a callback query (a button press carrying a token).  For *)
(* a callback query update.message is None and update.callback_query is    *)
(* set; for a message it is the other way round.  Every handler reads      *)
(* self.config and self.ncn and answers through update.message or          *)
(* update.callback_query.  The outbound calls of each update are recorded. *)
(* Other kinds of update (edited messages, channel posts) are left out.    *)
(*                                                                         *)
(* run() builds the Application with its defaults, under which the handler *)
(* of one update is awaited before the next update is taken.  The model is *)
(* more liberal: while button_handler is suspended in query.answer(), the  *)
(* message updates of any user are handled in between.                     *)
(***************************************************************************)
EXTENDS Integers, Sequences, FiniteSets, TLC

VARIABLES environ, config, ncn, application, pc, pending, last

vars == <<environ, config, ncn, application, pc, pending, last>>

----------------------------------------------------------------------------
(* Bounds of the model *)

\* user identities are 1..MaxUserId
MaxUserId == 2
\* the largest number of comma-separated pieces in the ADMIN_IDS variable
MaxAdmins == 1

UserIds == 1..MaxUserId

None == "None"

----------------------------------------------------------------------------
(* Configuration: class BotConfig *)

PLACEHOLDER_TOKEN == "YOUR_BOT_TOKEN_HERE"

\* values of TELEGRAM_BOT_TOKEN in the environment: unset, empty, the
\* placeholder itself, a real token
EnvTokens == {None, "", PLACEHOLDER_TOKEN, "123:ABC"}

\* a piece of ADMIN_IDS.split(','): the decimal text of an id, or blank
EnvPieces == {ToString(i) : i \in UserIds} \cup {" "}

RECURSIVE SeqsUpTo(_, _)
SeqsUpTo(S, n) ==
    IF n = 0 THEN {<<>>}
    ELSE LET shorter == SeqsUpTo(S, n - 1)
         IN  shorter \cup {Append(s, x) : s \in {t \in shorter : Len(t) = n - 1}, x \in S}

\* os.environ as far as the program reads it; ADMIN_IDS is kept split at ','
Environments ==
    [TELEGRAM_BOT_TOKEN : EnvTokens, ADMIN_IDS : SeqsUpTo(EnvPieces, MaxAdmins)]

\* id.strip(): truthy unless the piece is blank
strip(piece) == IF piece = " " THEN "" ELSE piece

\* int(text) for the decimal text of an id
int(text) == CHOOSE i \in UserIds : ToString(i) = text

\* [int(id.strip()) for id in admin_ids_str.split(',') if id.strip()]
RECURSIVE parse_admin_ids(_)
parse_admin_ids(pieces) ==
    IF pieces = <<>> THEN <<>>
    ELSE LET rest == parse_admin_ids(Tail(pieces))
         IN  IF strip(Head(pieces)) # "" THEN <<int(strip(Head(pieces)))>> \o rest
             ELSE rest

MAX_MESSAGE_LENGTH == 4096

\* the class body of BotConfig, run once at import
BotConfig(env) ==
    [TOKEN |-> IF env.TELEGRAM_BOT_TOKEN \in {None, ""} THEN PLACEHOLDER_TOKEN
               ELSE env.TELEGRAM_BOT_TOKEN,
     ADMIN_IDS |-> parse_admin_ids(env.ADMIN_IDS),
     MAX_MESSAGE_LENGTH |-> MAX_MESSAGE_LENGTH]

----------------------------------------------------------------------------
(* Content: class NCNFeature, class NCNComponent *)

NCNFeature(title, description, icon) ==
    [title |-> title, description |-> description, icon |-> icon]

\* NCNComponent.__init__
NCNComponent ==
    [description |-> "NCN (NVAI Computing Network)",
     key_features |-> <<
        NCNFeature("Quantum-Secure Architecture", "Military-grade encryption", "shield"),
        NCNFeature("NVAI Neural Processing", "Distributed neural network processing", "bolt"),
        NCNFeature("Autonomous Operation", "Self-healing, self-optimizing network", "robot"),
        NCNFeature("Edge Computing First", "Ultra-low latency processing", "dash"),
        NCNFeature("Data Sovereignty", "Complete user control over data", "lock"),
        NCNFeature("Energy Efficient", "Green computing", "herb") >>,
     use_cases |-> <<
        "**Scientific Research**: Distributed computing for complex simulations",
        "**Healthcare**: Secure medical data processing and AI diagnostics",
        "**Financial Systems**: Ultra-secure transaction processing",
        "**Gaming & Metaverse**: Low-latency, high-performance computing",
        "**Government & Defense**: Sovereign computing infrastructure",
        "**AI Training**: Distributed model training with privacy protection" >>,
     \* a dict: its items in insertion order
     technical_specs |-> <<
        <<"Network Type", "Decentralized Mesh Network">>,
        <<"Consensus Mechanism", "Proof-of-Compute (PoC)">>,
        <<"Encryption", "Post-Quantum Cryptography">>,
        <<"Latency", "< 5ms (edge-to-edge)">>,
        <<"Uptime", "99.999% SLA">>,
        <<"Scalability", "Unlimited horizontal scaling">>,
        <<"Compliance", "GDPR, HIPAA, SOC2 compliant">> >>]

----------------------------------------------------------------------------
(* Updates and the outbound calls of the transport *)

\* the commands a client may send: the nine that setup_handlers registers,
\* and one that help_command advertises although it has no handler
RegisteredCommands ==
    {"start", "features", "usecases", "techspecs", "whitepaper", "network",
     "contact", "help", "stats"}
Commands == RegisteredCommands \cup {"admin"}

\* the tokens a client may echo: every callback_data the program renders,
\* and tokens it never produced
Tokens ==
    {"features", "usecases", "techspecs", "whitepaper", "network", "contact",
     "main_menu", "page_2", "page_999999", "page_abc"}

\* a message carries a command, or None when it is plain text;
\* a callback query carries data
Updates ==
    [kind : {"message"}, command : Commands \cup {None}, data : {None}, user : UserIds]
    \cup
    [kind : {"callback_query"}, command : {None}, data : Tokens, user : UserIds]

NoUpdate == [kind |-> None, command |-> None, data |-> None, user |-> 0]

\* update.message is None for a callback query, update.callback_query is
\* None for a message
has_message(update) == update.kind = "message"
has_callback_query(update) == update.kind = "callback_query"

InlineKeyboardButton(text, callback_data, url) ==
    [text |-> text, callback_data |-> callback_data, url |-> url]

NoMarkup == <<>>

Call(method, text, parse_mode, reply_markup) ==
    [method |-> method, text |-> text, parse_mode |-> parse_mode,
     reply_markup |-> reply_markup]

\* what a handler leaves behind: self as it is afterwards, the calls it
\* made on the transport, and the exception it raised if any
Result(self, calls, raised) ==
    [config |-> self.config, ncn |-> self.ncn, calls |-> calls, raised |-> raised]

\* attribute access on None
AttributeError == "AttributeError"

\* user.mention_html()
mention_html(user) == "<a href=tg://user?id=" \o ToString(user) \o ">"

----------------------------------------------------------------------------
(* The screens: NCNBot.start .. NCNBot.stats *)

start_keyboard ==
    << <<InlineKeyboardButton("Features", "features", None),
         InlineKeyboardButton("Tech Specs", "techspecs", None)>>,
       <<InlineKeyboardButton("Use Cases", "usecases", None),
         InlineKeyboardButton("Network", "network", None)>>,
       <<InlineKeyboardButton("Whitepaper", "whitepaper", None),
         InlineKeyboardButton("Contact", "contact", None)>> >>

welcome_message(self, update) ==
    <<"Welcome ", mention_html(update.user), " to the NCN Information Portal!",
      self.ncn.description, "Available Commands", "Quick Actions">>

\* replies through update.message only
start(self, update) ==
    IF has_message(update)
    THEN Result(self, <<Call("reply_html", welcome_message(self, update), "HTML",
                             start_keyboard)>>, None)
    ELSE Result(self, <<>>, AttributeError)

\* the two ways a content screen is delivered
deliver(self, update, message, keyboard) ==
    IF has_callback_query(update)
    THEN Result(self, <<Call("edit_message_text", message, "Markdown", keyboard)>>, None)
    ELSE IF has_message(update)
    THEN Result(self, <<Call("reply_markdown", message, "Markdown", keyboard)>>, None)
    ELSE Result(self, <<>>, AttributeError)

RECURSIVE features_lines(_)
features_lines(key_features) ==
    IF key_features = <<>> THEN <<>>
    ELSE <<Head(key_features).icon, Head(key_features).title,
           Head(key_features).description>> \o features_lines(Tail(key_features))

features_keyboard ==
    << <<InlineKeyboardButton("Back to Main", "main_menu", None)>>,
       <<InlineKeyboardButton("Use Cases", "usecases", None)>> >>

\* features consuming the shared list: "while key_features: pop(0)"
features_pop(self, update) ==
    LET result == deliver(self, update,
                          <<"**NCN Key Features**">>
                              \o features_lines(self.ncn.key_features),
                          features_keyboard)
    IN  [result EXCEPT !.ncn = [self.ncn EXCEPT !.key_features = <<>>]]

features(self, update) ==
    deliver(self, update,
            <<"**NCN Key Features**">> \o features_lines(self.ncn.key_features),
            features_keyboard)

usecases_keyboard ==
    << <<InlineKeyboardButton("Back to Features", "features", None)>>,
       <<InlineKeyboardButton("Tech Specs", "techspecs", None)>> >>

AdditionalApplications ==
    <<"*Additional Applications:*", "- Autonomous Vehicle Networks",
      "- Smart City Infrastructure", "- Decentralized AI Marketplaces",
      "- Privacy-Preserving Analytics", "- Edge AI Processing">>

\* usecases extending the shared list self.ncn.use_cases in place
usecases_in_place(self, update) ==
    LET extended == self.ncn.use_cases \o AdditionalApplications
        result == deliver(self, update,
                          <<"**NCN Use Cases & Applications**">> \o extended,
                          usecases_keyboard)
    IN  [result EXCEPT !.ncn = [self.ncn EXCEPT !.use_cases = extended]]

usecases(self, update) ==
    deliver(self, update,
            <<"**NCN Use Cases & Applications**">> \o self.ncn.use_cases
                \o AdditionalApplications,
            usecases_keyboard)

RECURSIVE techspecs_lines(_)
techspecs_lines(items) ==
    IF items = <<>> THEN <<>>
    ELSE <<Head(items)[1], Head(items)[2]>> \o techspecs_lines(Tail(items))

\* the Network Status button carrying the method's name instead of the token
techspecs_keyboard_method_name ==
    << <<InlineKeyboardButton("Back to Use Cases", "usecases", None)>>,
       <<InlineKeyboardButton("Network Status", "network_status", None)>> >>

techspecs_keyboard ==
    << <<InlineKeyboardButton("Back to Use Cases", "usecases", None)>>,
       <<InlineKeyboardButton("Network Status", "network", None)>> >>

AdvancedCapabilities ==
    <<"**Advanced Capabilities:**", "- Neural Load Balancing",
      "- Adaptive Resource Allocation", "- Cross-Chain Interoperability",
      "- Zero-Trust Security Model", "- Predictive Maintenance AI">>

techspecs(self, update) ==
    deliver(self, update,
            <<"**NCN Technical Specifications**">>
                \o techspecs_lines(self.ncn.technical_specs) \o AdvancedCapabilities,
            techspecs_keyboard)

whitepaper_keyboard ==
    << <<InlineKeyboardButton("Contact Team", "contact", None)>>,
       <<InlineKeyboardButton("Back to Main", "main_menu", None)>> >>

whitepaper(self, update) ==
    deliver(self, update, <<"**NCN Technical Documentation**">>, whitepaper_keyboard)

\* the Back button carrying the token of the Refresh button
network_status_keyboard_copied ==
    << <<InlineKeyboardButton("Refresh", "network", None)>>,
       <<InlineKeyboardButton("Back to Main", "network", None)>> >>

network_status_keyboard ==
    << <<InlineKeyboardButton("Refresh", "network", None)>>,
       <<InlineKeyboardButton("Back to Main", "main_menu", None)>> >>

network_status(self, update) ==
    deliver(self, update, <<"**NCN Network Status** - Live Dashboard">>,
            network_status_keyboard)

contact_keyboard ==
    << <<InlineKeyboardButton("Visit Website", None, "https://ncn-network.io")>>,
       <<InlineKeyboardButton("Back to Main", "main_menu", None)>> >>

\* contact editing the message without its reply_markup
contact_edit_without_markup(self, update) ==
    IF has_callback_query(update)
    THEN Result(self, <<Call("edit_message_text", <<"**Contact NCN Team**">>, "Markdown",
                             NoMarkup)>>, None)
    ELSE deliver(self, update, <<"**Contact NCN Team**">>, contact_keyboard)

contact(self, update) ==
    deliver(self, update, <<"**Contact NCN Team**">>, contact_keyboard)

help_command(self, update) ==
    IF has_message(update)
    THEN Result(self, <<Call("reply_markdown", <<"**NCN Bot Commands**">>, "Markdown",
                             NoMarkup)>>, None)
    ELSE Result(self, <<>>, AttributeError)

UNKNOWN_TEXT ==
    "Sorry, I didn't understand that command. Try /help to see available commands."

unknown(self, update) ==
    IF has_message(update)
    THEN Result(self, <<Call("reply_text", <<UNKNOWN_TEXT>>, None, NoMarkup)>>, None)
    ELSE Result(self, <<>>, AttributeError)

REFUSAL_TEXT == "This command is for administrators only."

stats_message == <<"**Bot Statistics**", "*More stats coming soon!*">>

in_list(x, list) == \E i \in DOMAIN list : list[i] = x

\* stats without the "return" after the refusal
stats_no_return(self, update) ==
    LET user_id == update.user
        refusal == IF ~in_list(user_id, self.config.ADMIN_IDS)
                   THEN <<Call("reply_text", <<REFUSAL_TEXT>>, None, NoMarkup)>>
                   ELSE <<>>
    IN  IF ~has_message(update) THEN Result(self, <<>>, AttributeError)
        ELSE Result(self, refusal \o <<Call("reply_markdown", stats_message, "Markdown",
                                            NoMarkup)>>, None)

stats(self, update) ==
    LET user_id == update.user
    IN  IF ~has_message(update) THEN Result(self, <<>>, AttributeError)
        ELSE IF ~in_list(user_id, self.config.ADMIN_IDS)
        THEN Result(self, <<Call("reply_text", <<REFUSAL_TEXT>>, None, NoMarkup)>>, None)
        ELSE Result(self, <<Call("reply_markdown", stats_message, "Markdown", NoMarkup)>>,
                    None)

----------------------------------------------------------------------------
(* NCNBot.button_handler *)

\* the dict handlers of button_handler: token -> method of NCNBot
button_handlers ==
    [t \in {"features", "usecases", "techspecs", "whitepaper", "network", "contact",
            "main_menu"} |->
        CASE t = "features" -> "features"
          [] t = "usecases" -> "usecases"
          [] t = "techspecs" -> "techspecs"
          [] t = "whitepaper" -> "whitepaper"
          [] t = "network" -> "network_status"
          [] t = "contact" -> "contact"
          [] t = "main_menu" -> "start"]

\* calling a method of NCNBot by its name
Invoke(callback, self, update) ==
    CASE callback = "start" -> start(self, update)
      [] callback = "features" -> features(self, update)
      [] callback = "usecases" -> usecases(self, update)
      [] callback = "techspecs" -> techspecs(self, update)
      [] callback = "whitepaper" -> whitepaper(self, update)
      [] callback = "network_status" -> network_status(self, update)
      [] callback = "contact" -> contact(self, update)
      [] callback = "help_command" -> help_command(self, update)
      [] callback = "stats" -> stats(self, update)
      [] callback = "unknown" -> unknown(self, update)

\* button_handler up to its first await: query.answer()
button_handler_answer(self, update) ==
    IF has_callback_query(update)
    THEN Result(self, <<Call("answer", <<>>, None, NoMarkup)>>, None)
    ELSE Result(self, <<>>, AttributeError)

\* handlers.get(data, self.start): unknown tokens fall back to start
button_handler_target_default(update) ==
    IF update.data \in DOMAIN button_handlers THEN button_handlers[update.data]
    ELSE "start"

\* the method button_handler goes on to call: handlers[data] if data in handlers
button_handler_target(update) ==
    IF update.data \in DOMAIN button_handlers THEN button_handlers[update.data] ELSE None

\* button_handler after query.answer(): the dispatch on query.data
button_handler_dispatch(self, update) ==
    IF button_handler_target(update) # None
    THEN Invoke(button_handler_target(update), self, update)
    ELSE Result(self, <<>>, None)

----------------------------------------------------------------------------
(* NCNBot.setup_handlers and the Application's dispatch *)

CommandHandler(command, callback) ==
    [type |-> "CommandHandler", command |-> command, callback |-> callback]
CallbackQueryHandler(callback) ==
    [type |-> "CallbackQueryHandler", command |-> None, callback |-> callback]
\* MessageHandler(filters.COMMAND, callback)
MessageHandler(callback) ==
    [type |-> "MessageHandler", command |-> None, callback |-> callback]

\* the catch-all registered before the command handlers
setup_handlers_unknown_first ==
    << MessageHandler("unknown"),
       CommandHandler("start", "start"),
       CommandHandler("features", "features"),
       CommandHandler("usecases", "usecases"),
       CommandHandler("techspecs", "techspecs"),
       CommandHandler("whitepaper", "whitepaper"),
       CommandHandler("network", "network_status"),
       CommandHandler("contact", "contact"),
       CommandHandler("help", "help_command"),
       CommandHandler("stats", "stats"),
       CallbackQueryHandler("button_handler") >>

\* the handlers in the order of the add_handler calls (all in group 0)
setup_handlers ==
    << CommandHandler("start", "start"),
       CommandHandler("features", "features"),
       CommandHandler("usecases", "usecases"),
       CommandHandler("techspecs", "techspecs"),
       CommandHandler("whitepaper", "whitepaper"),
       CommandHandler("network", "network_status"),
       CommandHandler("contact", "contact"),
       CommandHandler("help", "help_command"),
       CommandHandler("stats", "stats"),
       CallbackQueryHandler("button_handler"),
       MessageHandler("unknown") >>

\* whether a registered handler accepts the update
check_update(handler, update) ==
    CASE handler.type = "CommandHandler" ->
            has_message(update) /\ update.command = handler.command
      [] handler.type = "CallbackQueryHandler" -> has_callback_query(update)
      [] handler.type = "MessageHandler" ->
            has_message(update) /\ update.command # None

\* within a group the first handler that accepts the update handles it, and
\* no other: the callbacks the Application calls for the update
process_update(handlers, update) ==
    LET accepting == {i \in DOMAIN handlers : check_update(handlers[i], update)}
    IN  IF accepting = {} THEN <<>>
        ELSE <<handlers[CHOOSE i \in accepting : \A j \in accepting : i <= j].callback>>

\* the callbacks run one after the other on the same self; an exception of
\* a callback is caught and logged by the Application
RECURSIVE run_callbacks(_, _, _)
run_callbacks(callbacks, self, update) ==
    IF callbacks = <<>> THEN Result(self, <<>>, None)
    ELSE LET first == Invoke(Head(callbacks), self, update)
             rest  == run_callbacks(Tail(callbacks),
                                    [config |-> first.config, ncn |-> first.ncn], update)
         IN  [config |-> rest.config, ncn |-> rest.ncn,
              calls |-> first.calls \o rest.calls,
              raised |-> IF first.raised # None THEN first.raised ELSE rest.raised]

----------------------------------------------------------------------------
(* The state machine *)

\* self.ncn before NCNBot.__init__ has run
NoComponent ==
    [description |-> "", key_features |-> <<>>, use_cases |-> <<>>,
     technical_specs |-> <<>>]

\* the Application before run() has built it
NoApplication == [handlers |-> <<>>, running |-> FALSE]

\* no update: nothing suspended (pending), nothing handled yet (last)
Nothing ==
    [update |-> NoUpdate, calls |-> <<>>, raised |-> None, handled_by |-> <<>>,
     screen |-> None]

Self == [config |-> config, ncn |-> ncn]

\* the module has been imported: BotConfig's class body has run, main() not yet
Init ==
    /\ environ \in Environments
    /\ config = BotConfig(environ)
    /\ ncn = NoComponent
    /\ application = NoApplication
    /\ pc = "main"
    /\ pending = Nothing
    /\ last = Nothing

\* NCNBot.__init__ validating with "if not self.config.TOKEN" only: the
\* fallback of BotConfig has already replaced a missing token
NCNBot_init_truthy_only ==
    /\ pc = "main"
    /\ ncn' = NCNComponent
    /\ pc' = IF config.TOKEN = None \/ config.TOKEN = ""
             THEN "exit_1" ELSE "constructed"
    /\ UNCHANGED <<environ, config, application, pending, last>>

\* NCNBot.__init__, called from main(): sys.exit(1) raises SystemExit, which
\* main's "except Exception" does not catch
NCNBot_init ==
    /\ pc = "main"
    /\ ncn' = NCNComponent
    /\ pc' = IF config.TOKEN = None \/ config.TOKEN = ""
                \/ config.TOKEN = PLACEHOLDER_TOKEN
             THEN "exit_1" ELSE "constructed"
    /\ UNCHANGED <<environ, config, application, pending, last>>

\* NCNBot.run up to the startup banner: the Application is built and the
\* handlers are registered
run_setup ==
    /\ pc = "constructed"
    /\ application' = [handlers |-> setup_handlers, running |-> FALSE]
    /\ pc' = "registered"
    /\ UNCHANGED <<environ, config, ncn, pending, last>>

\* NCNBot.run: application.run_polling(...)
run_polling ==
    /\ pc = "registered"
    /\ application' = [application EXCEPT !.running = TRUE]
    /\ pc' = "polling"
    /\ UNCHANGED <<environ, config, ncn, pending, last>>

Polling == pc = "polling" /\ application.running

\* a message update of user u, handled to the end by the handler the
\* Application picks for it; last records the update and its outcome
MessageUpdate(u) ==
    /\ Polling
    /\ \E command \in Commands \cup {None} :
         LET update == [kind |-> "message", command |-> command, data |-> None, user |-> u]
         IN  \E callbacks \in {process_update(application.handlers, update)} :
             \E result \in {run_callbacks(callbacks, Self, update)} :
                /\ last' = [update |-> update, calls |-> result.calls,
                            raised |-> result.raised, handled_by |-> callbacks,
                            screen |-> None]
                /\ config' = result.config
                /\ ncn' = result.ncn
    /\ UNCHANGED <<environ, application, pc, pending>>

\* a button press of user u: the Application calls button_handler, which
\* runs up to "await query.answer()" and is suspended there
CallbackUpdate(u) ==
    /\ Polling
    /\ pending = Nothing
    /\ \E data \in Tokens :
         LET update == [kind |-> "callback_query", command |-> None, data |-> data,
                        user |-> u]
         IN  \E callbacks \in {process_update(application.handlers, update)} :
             \E result \in {button_handler_answer(Self, update)} :
                IF callbacks = <<>>
                THEN /\ last' = [Nothing EXCEPT !.update = update]
                     /\ UNCHANGED <<config, ncn, pending>>
                ELSE /\ pending' = [update |-> update, calls |-> result.calls,
                                    raised |-> result.raised, handled_by |-> callbacks,
                                    screen |-> None]
                     /\ config' = result.config
                     /\ ncn' = result.ncn
                     /\ UNCHANGED last
    /\ UNCHANGED <<environ, application, pc>>

\* button_handler resumes after query.answer() and dispatches on query.data
ButtonDispatch ==
    /\ pending # Nothing
    /\ \E result \in {button_handler_dispatch(Self, pending.update)} :
           /\ last' = [pending EXCEPT !.calls = @ \o result.calls,
                                      !.raised = result.raised,
                                      !.screen = button_handler_target(pending.update)]
           /\ config' = result.config
           /\ ncn' = result.ncn
    /\ pending' = Nothing
    /\ UNCHANGED <<environ, application, pc>>

Next ==
    \/ NCNBot_init
    \/ run_setup
    \/ run_polling
    \/ \E u \in UserIds : MessageUpdate(u)
    \/ \E u \in UserIds : CallbackUpdate(u)
    \/ ButtonDispatch

Spec == Init /\ [][Next]_vars

----------------------------------------------------------------------------
(* Vocabulary of the properties *)

\* the buttons of a keyboard, and the tokens on its callback buttons
Buttons(reply_markup) ==
    UNION {{reply_markup[i][j] : j \in DOMAIN reply_markup[i]} : i \in DOMAIN reply_markup}
KeyboardTokens(reply_markup) ==
    {b.callback_data : b \in {x \in Buttons(reply_markup) : x.callback_data # None}}

\* the tokens an outcome has put on the client's screen
RenderedTokens(outcome) ==
    UNION {KeyboardTokens(outcome.calls[i].reply_markup) : i \in DOMAIN outcome.calls}

\* the calls of an outcome that put a screen on the client
ScreenCalls(outcome) ==
    {outcome.calls[i] : i \in {j \in DOMAIN outcome.calls :
                                  outcome.calls[j].method # "answer"}}

IsCommand(outcome) ==
    outcome.update.kind = "message" /\ outcome.update.command # None
IsPress(outcome) == outcome.update.kind = "callback_query"

----------------------------------------------------------------------------
(* C1 *)

----------------------------------------------------------------------------
(* C2, C3 *)

\* an outcome that has put the Menu screen on the client: the welcome text
\* of its user with the six actions of the start command
RendersMenu(outcome) ==
    \E call \in ScreenCalls(outcome) :
        /\ call.text = welcome_message(Self, outcome.update)
        /\ call.reply_markup = start_keyboard

\* C2: a button press whose token is not in the dispatch table (such as
\* page_abc) ends with the Menu screen rendered and with nothing raised.
C2_UnknownTokenRendersMenu ==
    (IsPress(last) /\ last.update.data \notin DOMAIN button_handlers) =>
        (last.raised = None /\ RendersMenu(last))

\* C3: a button press with the token main_menu delivers the welcome text
\* and the six actions of the start command, and the handler does not raise.
C3_MainMenuRendersMenu ==
    (IsPress(last) /\ last.update.data = "main_menu") =>
        (last.raised = None /\ RendersMenu(last))

----------------------------------------------------------------------------
(* C4 *)

\* the method that setup_handlers registers for the command of that name;
\* main_menu names the Menu screen, which start renders
NamedScreen(token) ==
    IF token = "main_menu" THEN "start"
    ELSE LET registered == {i \in DOMAIN application.handlers :
                               /\ application.handlers[i].type = "CommandHandler"
                               /\ application.handlers[i].command = token}
         IN  IF registered = {} THEN None
             ELSE application.handlers[CHOOSE i \in registered : TRUE].callback

\* C4: every token on a callback button of a screen the program has put on
\* a client is in the dispatch table of button_handler, mapped to the
\* handler of the screen it names; and a press that echoes such a token has
\* been dispatched to that handler.
C4_RenderedTokensDecode ==
    /\ \A token \in RenderedTokens(last) \cup RenderedTokens(pending) :
          /\ token \in DOMAIN button_handlers
          /\ button_handlers[token] = NamedScreen(token)
    /\ (IsPress(last) /\ last.update.data \in DOMAIN button_handlers) =>
          (last.screen # None /\ last.screen = NamedScreen(last.update.data))

\* the token network, which the techspecs screen and the Menu attach to a
\* button, was echoed and reached network_status, which rendered its buttons
C4_Witness ==
    /\ IsPress(last) /\ last.update.data = "network"
    /\ last.screen = "network_status"
    /\ RenderedTokens(last) = {"network", "main_menu"}

----------------------------------------------------------------------------
(* C5 *)

\* self as main() constructs it from the environment
StartupSelf == [config |-> BotConfig(environ), ncn |-> NCNComponent]

\* the outcome of an update handled alone, right after startup
Alone(update) ==
    IF update.kind = "message"
    THEN LET result == run_callbacks(process_update(setup_handlers, update),
                                     StartupSelf, update)
         IN  [calls |-> result.calls, raised |-> result.raised]
    ELSE LET answered == button_handler_answer(StartupSelf, update)
             result == button_handler_dispatch(StartupSelf, update)
         IN  [calls |-> answered.calls \o result.calls, raised |-> result.raised]

\* C5: whatever updates of whatever users were handled before or in
\* between, the outcome of an update (calls with their text, actions and
\* delivery method; exception) is the outcome of that update handled alone.
C5_OutcomeOfUpdateAlone ==
    /\ last # Nothing =>
          (last.calls = Alone(last.update).calls /\ last.raised = Alone(last.update).raised)
    /\ pending # Nothing =>
          pending.calls = button_handler_answer(StartupSelf, pending.update).calls

\* a button press of one user is suspended in query.answer() while an
\* update of another user has been handled
C5_Witness ==
    /\ pending # Nothing /\ last # Nothing
    /\ pending.update.user # last.update.user
    /\ last.calls # <<>>

----------------------------------------------------------------------------
(* C6 *)

PageTokens == {"page_2", "page_999999"}

----------------------------------------------------------------------------
(* C7 *)

\* C7: once the bot is constructed, the allow-list and the three content
\* catalogs have the values they were given at startup, whatever updates
\* have been handled.
C7_ConfigurationImmutable ==
    pc # "main" =>
        /\ config.ADMIN_IDS = BotConfig(environ).ADMIN_IDS
        /\ ncn.key_features = NCNComponent.key_features
        /\ ncn.use_cases = NCNComponent.use_cases
        /\ ncn.technical_specs = NCNComponent.technical_specs

\* with a non-empty allow-list, a handler that reads a catalog has rendered
\* its screen while a button press is suspended
C7_Witness ==
    /\ config.ADMIN_IDS # <<>>
    /\ pending # Nothing
    /\ IsCommand(last) /\ last.update.command = "features"
    /\ ScreenCalls(last) # {}

----------------------------------------------------------------------------
(* C8 *)

ContentScreens ==
    {"features", "usecases", "techspecs", "whitepaper", "network_status", "contact"}

\* the tokens on the buttons of a screen, as its method renders them for a
\* command and for a button press
CommandTokens(screen) ==
    RenderedTokens(Invoke(screen, Self,
        [kind |-> "message", command |-> None, data |-> None, user |-> 1]))
PressTokens(screen) ==
    RenderedTokens(Invoke(screen, Self,
        [kind |-> "callback_query", command |-> None, data |-> None, user |-> 1]))

\* the screens one button press away
Successors(tokens) ==
    {button_handlers[token] : token \in tokens \cap DOMAIN button_handlers}

\* the screens any number of button presses away from the given ones
RECURSIVE ReachableFrom(_)
ReachableFrom(screens) ==
    LET more == screens \cup UNION {Successors(PressTokens(screen)) : screen \in screens}
    IN  IF more = screens THEN screens ELSE ReachableFrom(more)

\* C8: while the bot is polling, every content screen is some number of
\* button presses away from the Menu that the start command renders, and
\* from every content screen some number of button presses lead to a screen
\* that carries a button with the token main_menu.
C8_NavigationGraph ==
    Polling =>
        \A content \in ContentScreens :
            /\ content \in ReachableFrom(Successors(CommandTokens("start")))
            /\ \E screen \in ReachableFrom({content}) :
                   "main_menu" \in PressTokens(screen)

\* a button press has put the techspecs screen on the client, which has no
\* main_menu button itself
C8_Witness ==
    /\ IsPress(last) /\ last.screen = "techspecs"
    /\ RenderedTokens(last) = {"usecases", "network"}

----------------------------------------------------------------------------
(* C9 *)

ContentTokens ==
    {"features", "usecases", "techspecs", "whitepaper", "network", "contact"}

\* the one screen an outcome has put on the client
TheScreen(outcome) == CHOOSE call \in ScreenCalls(outcome) : TRUE

\* C9: when a content screen is invoked by its command and by the button
\* token of the same name, one right after the other in either order, both
\* put exactly one screen on the client, with the same text and the same
\* actions; the command sends a new message and the press edits the message.
C9_SameScreen(message, press) ==
    (/\ IsCommand(message) /\ IsPress(press)
     /\ message.update.command \in ContentTokens
     /\ press.update.data = message.update.command) =>
        /\ message.raised = None /\ press.raised = None
        /\ Cardinality(ScreenCalls(message)) = 1
        /\ Cardinality(ScreenCalls(press)) = 1
        /\ TheScreen(message).text = TheScreen(press).text
        /\ TheScreen(message).reply_markup = TheScreen(press).reply_markup
        /\ TheScreen(message).parse_mode = TheScreen(press).parse_mode
        /\ TheScreen(message).method = "reply_markdown"
        /\ TheScreen(press).method = "edit_message_text"

C9_CommandAndButtonAgree ==
    [][C9_SameScreen(last, last') /\ C9_SameScreen(last', last)]_vars

\* the contact screen delivered for a button press
C9_Witness ==
    /\ IsPress(last) /\ last.update.data = "contact"
    /\ TheScreen(last).method = "edit_message_text"
    /\ TheScreen(last).reply_markup = contact_keyboard

----------------------------------------------------------------------------
(* C10 *)

SentUnknownReply(outcome) ==
    \E call \in ScreenCalls(outcome) : call.text = <<UNKNOWN_TEXT>>

----------------------------------------------------------------------------
(* C11 *)

\* TELEGRAM_BOT_TOKEN is unset, empty or the placeholder
TokenMissing ==
    environ.TELEGRAM_BOT_TOKEN \in {None, "", PLACEHOLDER_TOKEN}

\* C11: when the access token is unset (or empty) or is the placeholder,
\* the only step the process takes is NCNBot.__init__ ending in exit status
\* 1: no handler is ever registered, polling is never started and no update
\* is ever handled.
C11_NoStartWithoutToken ==
    TokenMissing =>
        /\ pc \in {"main", "exit_1"}
        /\ application.handlers = <<>>
        /\ ~application.running
        /\ pending = Nothing /\ last = Nothing

\* with the token unset, NCNBot.__init__ has run and exited with status 1
C11_Witness ==
    /\ environ.TELEGRAM_BOT_TOKEN = None
    /\ config.TOKEN = PLACEHOLDER_TOKEN
    /\ pc = "exit_1"
    /\ ncn = NCNComponent

====
